---- MODULE Spec2Model ----
(***************************************************************************)
(* Model of src/src/certificate.py (subscription-manager): the OID value   *)
(* type and its wildcard matcher, the Extensions container (find, get,     *)
(* branch, ltrim) and the parser that fills it from the text dump of a     *)
(* certificate.                                                            *)
(*                                                                         *)
(* A Python str is the sequence of its characters, each a one-character    *)
(* string.  An OID is its `part` list: a sequence of strs.                 *)
(***************************************************************************)
EXTENDS Integers, Sequences, FiniteSets, TLC

VARIABLES text, heap, last

vars == <<text, heap, last>>

----------------------------------------------------------------------------
(* Bounds of the model. *)

\* components of a stored key / of an OID given to match
MaxKeyLen == 2
\* components of a query pattern
MaxPatLen == 2
\* entries of a constructed Extensions
MaxKeys == 2
\* Extensions instances alive at once
MaxHeap == 2
\* lines of a certificate dump
MaxLines == 4

----------------------------------------------------------------------------
(* Python built-ins used by the code. *)

Min(a, b) == IF a < b THEN a ELSE b

Max(a, b) == IF a < b THEN b ELSE a

\* the value None, distinct from every str
None == <<"None">>

\* s[lo:hi] with Python's treatment of negative and out-of-range indices
PySlice(s, lo, hi) ==
  LET n == Len(s)
      a == IF lo < 0 THEN Max(n + lo, 0) ELSE Min(lo, n)
      b == IF hi < 0 THEN Max(n + hi, 0) ELSE Min(hi, n)
  IN  SubSeq(s, a + 1, b)

\* s[lo:]
PySliceFrom(s, lo) == PySlice(s, lo, Len(s))

\* s[:hi]
PySliceTo(s, hi) == PySlice(s, 0, hi)

\* the 1-based positions at which sub occurs in s
Occurrences(s, sub) ==
  {i \in 1..(Len(s) - Len(sub) + 1) : SubSeq(s, i, i + Len(sub) - 1) = sub}

\* s.find(sub): the 0-based index of the first occurrence, or -1
PyFind(s, sub) ==
  IF Occurrences(s, sub) = {} THEN -1
  ELSE (CHOOSE i \in Occurrences(s, sub) : \A j \in Occurrences(s, sub) : i <= j) - 1

\* s.rfind(sub): the 0-based index of the last occurrence, or -1
PyRfind(s, sub) ==
  IF Occurrences(s, sub) = {} THEN -1
  ELSE (CHOOSE i \in Occurrences(s, sub) : \A j \in Occurrences(s, sub) : i >= j) - 1

RECURSIVE PySplit(_, _)
\* s.split(sep): always at least one piece
PySplit(s, sep) ==
  LET i == PyFind(s, sep)
  IN  IF i = -1 THEN <<s>>
      ELSE <<PySliceTo(s, i)>> \o PySplit(PySliceFrom(s, i + Len(sep)), sep)

RECURSIVE PyJoin(_, _)
\* sep.join(pieces)
PyJoin(pieces, sep) ==
  IF Len(pieces) = 0 THEN <<>>
  ELSE IF Len(pieces) = 1 THEN pieces[1]
  ELSE pieces[1] \o sep \o PyJoin(Tail(pieces), sep)

Whitespace == {" "}

RECURSIVE LStrip(_)
LStrip(s) ==
  IF Len(s) > 0 /\ s[1] \in Whitespace THEN LStrip(Tail(s)) ELSE s

RECURSIVE RStrip(_)
RStrip(s) ==
  IF Len(s) > 0 /\ s[Len(s)] \in Whitespace THEN RStrip(SubSeq(s, 1, Len(s) - 1)) ELSE s

\* s.strip()
PyStrip(s) == RStrip(LStrip(s))

\* the permutations of 1..n: the orders a list of n objects can be put in
Perms(n) == {p \in [1..n -> 1..n] : \A i, j \in 1..n : p[i] = p[j] => i = j}

----------------------------------------------------------------------------
(* class OID *)

WILDCARD == "*"

\* OID.split
Split(s) == PySplit(s, <<".">>)

\* OID.__init__ given a str: the parts; given a list: the list itself
OIDofStr(s) == Split(s)

\* OID.__str__
Str(part) == PyJoin(part, <<".">>)

\* OID.__eq__ / OID.__hash__: by the dotted form
OIDEq(p, q) == Str(p) = Str(q)

\* OID.parent: None for an OID of at most one component
OIDParent(part) ==
  LET p == PySliceTo(part, -1)
  IN  IF Len(p) > 0 THEN p ELSE None

\* OID.ltrim
OIDLtrim(part, n) == PySliceFrom(part, n)

\* OID.rtrim
OIDRtrim(part, n) == PySliceTo(part, -n)

\* OID.append, the fragment already an OID
OIDAppend(part, frag) == part \o frag

RECURSIVE MatchLoop(_, _, _)
\* the loop of OID.match over `parts`; oid[i] past the end raises, which fails
MatchLoop(parts, oid, i) ==
  IF Len(parts) = 0 THEN TRUE
  ELSE IF i + 1 > Len(oid) THEN FALSE
  ELSE IF parts[1] = oid[i + 1] \/ oid[i + 1] = <<WILDCARD>>
    THEN MatchLoop(Tail(parts), oid, i + 1)
    ELSE FALSE

\* OID.match: self and the pattern as part lists
Match(self, oid) ==
  IF Len(oid) = 0 THEN FALSE
  ELSE IF oid[1] = <<>>
    THEN LET q == PySliceFrom(oid, 1)
         IN  MatchLoop(PySliceFrom(self, -Len(q)), q, 0)
  ELSE IF oid[Len(oid)] = <<>>
    THEN LET q == PySliceTo(oid, -1)
         IN  MatchLoop(PySliceTo(self, Len(q)), q, 0)
  ELSE MatchLoop(self, oid, 0)

----------------------------------------------------------------------------
(* class Extensions(dict)                                                  *)
(*                                                                         *)
(* An instance is the sequence of its (key, value) entries, no two keys    *)
(* equal under OID.__eq__.  OID defines __eq__ and __hash__ but no         *)
(* ordering, so sorted(self.keys()) orders the key objects by Python 2's   *)
(* default comparison, their addresses: the sequence lists the entries in  *)
(* that order, which is arbitrary but fixed for the life of the instance.  *)
(* `origin` records the call that built the instance.                      *)
(***************************************************************************)

Entry(k, v) == [key |-> k, val |-> v]

\* d[key] = v on a dict kept as a sequence: an equal key keeps its key
\* object and takes the new value
DictSet(d, key, v) ==
  IF \E j \in 1..Len(d) : OIDEq(d[j].key, key)
    THEN [j \in 1..Len(d) |-> IF OIDEq(d[j].key, key) THEN Entry(d[j].key, v) ELSE d[j]]
    ELSE Append(d, Entry(key, v))

\* the entries of d put in the order p
Reorder(d, p) == [i \in 1..Len(d) |-> d[p[i]]]

\* sorted(self.keys()), each key with its value
Keyset(inst) == inst.items

RECURSIVE FindLoop(_, _, _, _)
\* the loop of Extensions.find over the sorted keys
FindLoop(keyset, oid, limit, ext) ==
  IF Len(keyset) = 0 THEN ext
  ELSE LET k    == keyset[1]
           ext2 == IF Match(k.key, oid) THEN Append(ext, k) ELSE ext
       IN  IF limit # 0 /\ Len(ext2) = limit THEN ext2
           ELSE FindLoop(Tail(keyset), oid, limit, ext2)

\* Extensions.find, the query already an OID
ExtFind(inst, oid, limit) == FindLoop(Keyset(inst), oid, limit, <<>>)

\* Extensions.get, the query already an OID
ExtGet(inst, oid) ==
  LET ext == ExtFind(inst, oid, 1)
  IN  IF Len(ext) > 0 THEN ext[1].val ELSE None

\* Extensions.branch: root[-1] raises IndexError on an OID without components
BranchRaises(root) == Len(root) = 0

\* Extensions.branch: the root with the prefix sentinel appended if missing
BranchRoot(root) ==
  IF root[Len(root)] # <<>> THEN OIDAppend(root, OIDofStr(<<>>)) ELSE root

RECURSIVE BranchLoop(_, _, _)
\* the loop of Extensions.branch over the matches found
BranchLoop(found, ln, d) ==
  IF Len(found) = 0 THEN d
  ELSE BranchLoop(Tail(found), ln, DictSet(d, OIDLtrim(found[1].key, ln), found[1].val))

\* Extensions.branch: the dict d handed to Extensions(d)
BranchDict(inst, root) ==
  LET r == BranchRoot(root)
  IN  BranchLoop(ExtFind(inst, r, 0), Len(r) - 1, <<>>)

RECURSIVE LtrimLoop(_, _, _)
\* the loop of Extensions.ltrim over self.items()
LtrimLoop(its, n, d) ==
  IF Len(its) = 0 THEN d
  ELSE LtrimLoop(Tail(its), n, DictSet(d, OIDLtrim(its[1].key, n), its[1].val))

\* Extensions.ltrim: the dict d handed to Extensions(d); `its` is self.items()
LtrimDict(its, n) == LtrimLoop(its, n, <<>>)

\* Extensions(d) for a dict d: a new instance holding a copy of d
NewExtensions(d, p, org) == [items |-> Reorder(d, p), origin |-> org]

Origin(o, src, a, k) == [op |-> o, src |-> src, arg |-> a, n |-> k]

----------------------------------------------------------------------------
(* The parser: Extensions.__ext and Extensions.__parse *)

\* the section markers of the dump
EXTENSIONS == <<"e", "x", "t", "e", "n", "s", "i", "o", "n", "s", ":">>

SIGNATURE ==
  <<"S", "i", "g", "n", "a", "t", "u", "r", "e", " ",
    "A", "l", "g", "o", "r", "i", "t", "h", "m", ":">>

NEWLINE == <<"\n">>

Digits == {"0", "1", "2", "3", "4", "5", "6", "7", "8", "9"}

\* s is ([0-9]+\.)+ : digit groups, each closed by a dot
DigitGroups(s) ==
  /\ Len(s) >= 2
  /\ s[1] \in Digits
  /\ s[Len(s)] = "."
  /\ \A i \in 1..Len(s) : s[i] \in Digits \cup {"."}
  /\ \A i \in 1..(Len(s) - 1) : ~(s[i] = "." /\ s[i + 1] = ".")

\* Extensions.pattern.match(entry): '([0-9]+\.)+[0-9]:' found at the start of entry
PatternMatch(entry) ==
  \E k \in 2..Len(entry) :
    /\ k + 2 <= Len(entry)
    /\ DigitGroups(SubSeq(entry, 1, k))
    /\ entry[k + 1] \in Digits
    /\ entry[k + 2] = ":"

\* Extensions.__ext: text[start:end]
ExtWindow(t) == PySlice(t, PyFind(t, EXTENSIONS), PyRfind(t, SIGNATURE))

\* Extensions.__ext: the stripped lines of the window
ExtLines(t) ==
  LET raw == PySplit(ExtWindow(t), NEWLINE)
  IN  [i \in 1..Len(raw) |-> PyStrip(raw[i])]

\* a parser that keeps the whole stripped line as the value
ValueOfWholeLine(entry) == entry

\* self[oid] = entry[2:] : the value kept for a pending OID
ValueOf(entry) == PySliceFrom(entry, 2)

\* oid = OID(entry[:-1]) : the OID an introducer line names
IntroducedOID(entry) == OIDofStr(PySliceTo(entry, -1))

RECURSIVE ParseLoop(_, _, _)
\* the loop of Extensions.__parse; `oid` is <<>> for None, else <<the pending OID>>
ParseLoop(entries, oid, d) ==
  IF Len(entries) = 0 THEN [dict |-> d, oid |-> oid]
  ELSE IF Len(oid) > 0
    THEN ParseLoop(Tail(entries), <<>>, DictSet(d, oid[1], ValueOf(entries[1])))
  ELSE IF ~PatternMatch(entries[1])
    THEN ParseLoop(Tail(entries), <<>>, d)
  ELSE ParseLoop(Tail(entries), <<IntroducedOID(entries[1])>>, d)

\* Extensions.__parse: the entries stored
ParseDict(t) == ParseLoop(ExtLines(t), <<>>, <<>>).dict

----------------------------------------------------------------------------
(* The calls a client makes, and what the last one returned. *)

\* a query argument: a dotted str, or an OID object
StrArg(s) == [kind |-> "str", s |-> s, part |-> <<>>]

OIDArg(p) == [kind |-> "oid", s |-> <<>>, part |-> p]

\* if isinstance(oid, str): oid = OID(oid)
ToOID(q) == IF q.kind = "str" THEN OIDofStr(q.s) ELSE q.part

NoCall ==
  [op |-> "none", target |-> 0, self |-> <<>>, kind |-> "oid", s |-> <<>>,
   oid |-> <<>>, limit |-> 0, raised |-> FALSE, ok |-> FALSE,
   found |-> <<>>, val |-> None, ret |-> 0, lst |-> <<>>]

Call(o, i, q) ==
  [NoCall EXCEPT !.op = o, !.target = i, !.kind = q.kind, !.s = q.s, !.oid = ToOID(q)]

\* no call is in progress: the caller holds no result of an earlier call
Idle == last.op = "none"

\* the caller is done with the result of its last call
Return ==
  /\ ~Idle
  /\ last' = NoCall
  /\ UNCHANGED <<text, heap>>

\* self.match(pattern)
DoMatch(self, q) ==
  /\ Idle
  /\ last' = [Call("match", 0, q) EXCEPT !.self = self, !.ok = Match(self, ToOID(q))]
  /\ UNCHANGED <<text, heap>>

\* heap[i].get(q)
Get(i, q) ==
  /\ Idle
  /\ i \in DOMAIN heap
  /\ last' = [Call("get", i, q) EXCEPT !.val = ExtGet(heap[i], ToOID(q))]
  /\ UNCHANGED <<text, heap>>

\* heap[i].find(q, limit)
Find(i, q, limit) ==
  /\ Idle
  /\ i \in DOMAIN heap
  /\ last' = [Call("find", i, q) EXCEPT !.limit = limit,
                                        !.found = ExtFind(heap[i], ToOID(q), limit)]
  /\ UNCHANGED <<text, heap>>

\* heap[i].branch(q)
Branch(i, q) ==
  /\ Idle
  /\ i \in DOMAIN heap
  /\ Len(heap) < MaxHeap
  /\ IF BranchRaises(ToOID(q))
       THEN /\ last' = [Call("branch", i, q) EXCEPT !.raised = TRUE]
            /\ UNCHANGED heap
       ELSE LET d == BranchDict(heap[i], ToOID(q))
            IN  \E p \in Perms(Len(d)) :
                  /\ heap' = Append(heap, NewExtensions(d, p, Origin("branch", i, ToOID(q), 0)))
                  /\ last' = [Call("branch", i, q) EXCEPT !.ret = Len(heap) + 1]
  /\ UNCHANGED text

\* an ltrim that trims the keys of the instance itself and returns it
LtrimExtInPlace(i, n) ==
  /\ Idle
  /\ i \in DOMAIN heap
  /\ Len(heap) < MaxHeap
  /\ \E it \in Perms(Len(heap[i].items)) :
       LET d == LtrimDict(Reorder(heap[i].items, it), n)
       IN  \E p \in Perms(Len(d)) :
             /\ heap' = [heap EXCEPT ![i] = NewExtensions(d, p, Origin("ltrim", i, <<>>, n))]
             /\ last' = [NoCall EXCEPT !.op = "ltrim", !.target = i, !.limit = n, !.ret = i]
  /\ UNCHANGED text

\* heap[i].ltrim(n)
LtrimExt(i, n) ==
  /\ Idle
  /\ i \in DOMAIN heap
  /\ Len(heap) < MaxHeap
  /\ \E it \in Perms(Len(heap[i].items)) :
       LET d == LtrimDict(Reorder(heap[i].items, it), n)
       IN  \E p \in Perms(Len(d)) :
             /\ heap' = Append(heap, NewExtensions(d, p, Origin("ltrim", i, <<>>, n)))
             /\ last' = [NoCall EXCEPT !.op = "ltrim", !.target = i, !.limit = n,
                                       !.ret = Len(heap) + 1]
  /\ UNCHANGED text

\* Extensions(x509): the instance parsed from the dump; __parse has no raise
Parse ==
  /\ Idle
  /\ Len(heap) = 0
  /\ LET d == ParseDict(text)
     IN  \E p \in Perms(Len(d)) :
           /\ heap' = <<NewExtensions(d, p, Origin("parse", 0, <<>>, 0))>>
           /\ last' = [NoCall EXCEPT !.op = "parse", !.ret = 1]
  /\ UNCHANGED text

----------------------------------------------------------------------------
(* The inputs the calls are tried on. *)

\* the sequences over S of m to n elements
SeqsOf(S, m, n) == UNION {[1..k -> S] : k \in m..n}

KeyComponents == {<<"1">>, <<"2">>}

PatComponents == KeyComponents \cup {<<WILDCARD>>, <<>>}

\* fully specified OIDs
KeyOIDs == SeqsOf(KeyComponents, 1, MaxKeyLen)

\* OIDs a query can be, the OID without components included
PatternOIDs == SeqsOf(PatComponents, 0, MaxPatLen)

\* a query is given as its dotted str, or as an OID object where no str denotes it
Queries ==
  {StrArg(Str(p)) : p \in PatternOIDs} \cup
  {OIDArg(p) : p \in {x \in PatternOIDs : OIDofStr(Str(x)) # x}}

Values == {<<"a">>, <<"b">>}

\* every Extensions a dict of at most MaxKeys fully specified keys gives
DictExtensions ==
  {[items |-> its, origin |-> Origin("dict", 0, <<>>, 0)] :
     its \in {x \in SeqsOf({Entry(k, v) : k \in KeyOIDs, v \in Values}, 0, MaxKeys) :
                \A i, j \in 1..Len(x) : OIDEq(x[i].key, x[j].key) => i = j}}

----------------------------------------------------------------------------
(* OID.match on its own. *)

InitMatch ==
  /\ text = <<>>
  /\ heap = <<>>
  /\ last = NoCall

NextMatch ==
  \/ \E self \in KeyOIDs \cup {<<>>}, p \in PatternOIDs : DoMatch(self, OIDArg(p))
  \/ Return

SpecMatch == InitMatch /\ [][NextMatch]_vars

----------------------------------------------------------------------------
(* The queries on an Extensions built from a dict. *)

Init ==
  /\ text = <<>>
  /\ heap \in {<<e>> : e \in DictExtensions}
  /\ last = NoCall

Next ==
  \/ \E i \in DOMAIN heap, q \in Queries : Get(i, q)
  \/ \E i \in DOMAIN heap, q \in Queries, limit \in 0..MaxKeys : Find(i, q, limit)
  \/ \E i \in DOMAIN heap, q \in Queries : Branch(i, q)
  \/ \E i \in DOMAIN heap, n \in 0..MaxKeyLen : LtrimExt(i, n)
  \/ Return

Spec == Init /\ [][Next]_vars

----------------------------------------------------------------------------
(* The parser on a dump, then lookups in what it built. *)

\* the lines a dump is made of
DumpLines ==
  { EXTENSIONS,
    SIGNATURE,
    <<" ", " ", "1", ".", "2", ":">>,
    <<"1", ".", "1", "0", ":">>,
    <<"1", ".", "3", ":">>,
    <<" ", " ", "1">>,
    <<" ", " ", ".", ".", "a">>,
    <<"1", ".", "2", ":">> \o SIGNATURE }

\* x509.as_text(): lines joined by newlines
Dumps == {PyJoin(ls, NEWLINE) : ls \in SeqsOf(DumpLines, 0, MaxLines)}

ParseQueries ==
  {StrArg(<<"1", ".", "2">>), StrArg(<<"1", ".", "1", "0">>), StrArg(<<"1", ".", "3">>)}

InitParse ==
  /\ text \in Dumps
  /\ heap = <<>>
  /\ last = NoCall

NextParse ==
  \/ Parse
  \/ \E q \in ParseQueries : Get(1, q)
  \/ Return

SpecParse == InitParse /\ [][NextParse]_vars

----------------------------------------------------------------------------
(* ProductCertificate, EntitlementCertificate and Entitlement.              *)
(*                                                                         *)
(* heap[1] is the certificate's extensions(), heap[2] its `trimmed`; the   *)
(* ext of each Entitlement made is appended to the heap.                   *)
(***************************************************************************)

\* ProductCertificate.REDHAT
REDHAT ==
  <<"1", ".", "3", ".", "6", ".", "1", ".", "4", ".", "1", ".", "2", "3", "1", "2">>

\* the pattern getEntitlements hands to find
EntitlementPattern == <<"3", ".", "*", ".", "1">>

\* EntitlementCertificate(content): Certificate.__init__ parses the dump into
\* the extensions, ProductCertificate.__init__ keeps their ltrim(len(redhat))
NewEntitlementCertificate ==
  /\ Idle
  /\ Len(heap) = 0
  /\ LET n == Len(OIDofStr(REDHAT))
         d == ParseDict(text)
     IN  \E p \in Perms(Len(d)), it \in Perms(Len(d)) :
           LET ext == NewExtensions(d, p, Origin("parse", 0, <<>>, 0))
               t   == LtrimDict(Reorder(ext.items, it), n)
           IN  \E q \in Perms(Len(t)) :
                 /\ heap' = <<ext, NewExtensions(t, q, Origin("ltrim", 1, <<>>, n))>>
                 /\ last' = [NoCall EXCEPT !.op = "certificate", !.limit = n, !.ret = 2]
  /\ UNCHANGED text

\* heap[i].branch(root), root an OID with components: the instances
\* Extensions(d) can be
BranchResults(i, root) ==
  LET d == BranchDict(heap[i], root)
  IN  {NewExtensions(d, p, Origin("branch", i, root, 0)) : p \in Perms(Len(d))}

RECURSIVE EntitlementsLoop(_, _)
\* the loop of getEntitlements over the hits, no branch raising: the lists
\* of ext it can build
EntitlementsLoop(i, entitlements) ==
  IF Len(entitlements) = 0 THEN {<<>>}
  ELSE {<<ext>> \o rest :
          ext \in BranchResults(i, OIDRtrim(entitlements[1].key, 1)),
          rest \in EntitlementsLoop(i, Tail(entitlements))}

\* EntitlementCertificate.getEntitlements; a branch that raises ends the
\* call, and the list built so far is lost with it
GetEntitlements ==
  /\ Idle
  /\ Len(heap) = 2
  /\ LET entitlements == ExtFind(heap[2], OIDofStr(EntitlementPattern), 0)
         call == [Call("getEntitlements", 2, StrArg(EntitlementPattern))
                    EXCEPT !.found = entitlements]
     IN  IF \E k \in 1..Len(entitlements) :
               BranchRaises(OIDRtrim(entitlements[k].key, 1))
           THEN /\ last' = [call EXCEPT !.raised = TRUE]
                /\ UNCHANGED heap
           ELSE \E exts \in EntitlementsLoop(2, entitlements) :
                  /\ heap' = heap \o exts
                  /\ last' = [call EXCEPT !.lst = [k \in 1..Len(exts) |-> Len(heap) + k]]
  /\ UNCHANGED text

\* Entitlement.getName of the Entitlement whose ext is heap[i]
GetName(i) ==
  /\ i \in DOMAIN heap
  /\ i > 2
  /\ Get(i, StrArg(<<"1">>))

\* the base OID of another enterprise, as long as REDHAT
OtherRoot == <<"1", ".", "3", ".", "6", ".", "1", ".", "4", ".", "1", ".", "9">>

\* what follows the base OID in a key
Suffixes ==
  { << <<"3">> >>,
    << <<"3">>, <<"1">> >>,
    << <<"3">>, <<"1">>, <<"1">> >>,
    << <<"3">>, <<"2">>, <<"1">> >>,
    << <<"3">>, <<"1">>, <<"2">> >>,
    << <<"3">>, <<"1">>, <<"1">>, <<"1">> >>,
    << <<"1">>, <<"1">>, <<"1">> >>,
    << <<"2">>, <<"7">>, <<"1">> >> }

\* the extension OIDs of a certificate: under REDHAT, under another base,
\* and one shorter than a base
CertKeyOIDs ==
  {OIDofStr(r) \o s : r \in {REDHAT, OtherRoot}, s \in Suffixes}
    \cup {<< <<"1">>, <<"3">> >>}

RECURSIVE ExtensionLines(_)
\* the dump of the extensions: for each a line of the OID and a colon, then
\* a line of the two leading characters and the value
ExtensionLines(es) ==
  IF Len(es) = 0 THEN <<>>
  ELSE <<Str(es[1].key) \o <<":">>, <<".", ".">> \o es[1].val>>
         \o ExtensionLines(Tail(es))

\* x509.as_text() of a certificate of at most MaxKeys extensions
CertDumps ==
  {PyJoin(<<EXTENSIONS>> \o ExtensionLines(es) \o <<SIGNATURE>>, NEWLINE) :
     es \in SeqsOf({Entry(k, v) : k \in CertKeyOIDs, v \in Values}, 0, MaxKeys)}

InitCert ==
  /\ text \in CertDumps
  /\ heap = <<>>
  /\ last = NoCall

NextCert ==
  \/ NewEntitlementCertificate
  \/ GetEntitlements
  \/ \E i \in DOMAIN heap : GetName(i)
  \/ Return

SpecCert == InitCert /\ [][NextCert]_vars

----------------------------------------------------------------------------
(* Vocabulary of the properties. *)

\* no '*' component and no empty component, and at least one component
FullySpecified(p) ==
  /\ Len(p) >= 1
  /\ \A i \in 1..Len(p) : p[i] # <<>> /\ p[i] # <<WILDCARD>>

\* the positions of the entries of inst whose key equals oid
Stored(inst, oid) == {j \in 1..Len(inst.items) : OIDEq(inst.items[j].key, oid)}

\* the value inst stores under oid, None when it stores none
StoredValue(inst, oid) ==
  IF Stored(inst, oid) = {} THEN None
  ELSE inst.items[CHOOSE j \in Stored(inst, oid) : TRUE].val

\* the positions of the entries of inst whose key matches oid
Matching(inst, oid) == {j \in 1..Len(inst.items) : Match(inst.items[j].key, oid)}

\* the dotted forms of the keys of inst
KeyStrs(inst) == {Str(inst.items[j].key) : j \in 1..Len(inst.items)}

\* the character code of an atom
Ord(c) ==
  CASE c = "*" -> 42
    [] c = "." -> 46
    [] c = "1" -> 49
    [] c = "2" -> 50
    [] OTHER -> 0

RECURSIVE StrLess(_, _)
\* s < t in the lexicographic order of strs
StrLess(s, t) ==
  IF Len(t) = 0 THEN FALSE
  ELSE IF Len(s) = 0 THEN TRUE
  ELSE IF s[1] # t[1] THEN Ord(s[1]) < Ord(t[1])
  ELSE StrLess(Tail(s), Tail(t))

\* the last n components of p, all of p when it has fewer
LastN(p, n) == SubSeq(p, Max(Len(p) - n, 0) + 1, Len(p))

\* the first n components of p, all of p when it has fewer
FirstN(p, n) == SubSeq(p, 1, Min(n, Len(p)))

\* window and q agree in length and position by position, '*' in q agreeing with anything
WindowEquals(window, q) ==
  /\ Len(window) = Len(q)
  /\ \A i \in 1..Len(q) : window[i] = q[i] \/ q[i] = <<WILDCARD>>

\* the pattern without its empty first component, else without its empty
\* last component, else as it is
StrippedPattern(pattern) ==
  IF Len(pattern) > 0 /\ pattern[1] = <<>> THEN Tail(pattern)
  ELSE IF Len(pattern) > 0 /\ pattern[Len(pattern)] = <<>>
    THEN SubSeq(pattern, 1, Len(pattern) - 1)
  ELSE pattern

\* the match relation as the specification words it
SpecifiedMatch(self, pattern) ==
  IF Len(pattern) > 0 /\ pattern[1] = <<>>
    THEN WindowEquals(LastN(self, Len(pattern) - 1), Tail(pattern))
  ELSE IF Len(pattern) > 0 /\ pattern[Len(pattern)] = <<>>
    THEN WindowEquals(FirstN(self, Len(pattern) - 1), SubSeq(pattern, 1, Len(pattern) - 1))
  ELSE WindowEquals(self, pattern)

\* sub occurs in t at position i
At(t, sub, i) ==
  /\ i + Len(sub) - 1 <= Len(t)
  /\ \A k \in 1..Len(sub) : t[i + k - 1] = sub[k]

\* sub occurs in t
Contains(t, sub) == \E i \in 1..Len(t) : At(t, sub, i)

\* the text after the first "extensions:" (included) and before the last
\* "Signature Algorithm:", both present
BetweenMarkers(t) ==
  LET first == CHOOSE i \in 1..Len(t) :
                 At(t, EXTENSIONS, i) /\ \A j \in 1..(i - 1) : ~At(t, EXTENSIONS, j)
      lst   == CHOOSE i \in 1..Len(t) :
                 At(t, SIGNATURE, i) /\ \A j \in (i + 1)..Len(t) : ~At(t, SIGNATURE, j)
  IN  SubSeq(t, first, lst - 1)

\* the lines of a text, as they stand
RawLines(t) == PySplit(t, NEWLINE)

\* the lines of a text, stripped
StrippedLines(t) == [i \in 1..Len(RawLines(t)) |-> PyStrip(RawLines(t)[i])]

\* a whole line of digit groups closed by dots, then digits, then a colon
SpecifiedIntroducer(line) ==
  /\ Len(line) >= 4
  /\ line[Len(line)] = ":"
  /\ line[1] \in Digits
  /\ line[Len(line) - 1] \in Digits
  /\ \E i \in 1..(Len(line) - 1) : line[i] = "."
  /\ \A i \in 1..(Len(line) - 1) : line[i] \in Digits \cup {"."}
  /\ \A i \in 1..(Len(line) - 2) : ~(line[i] = "." /\ line[i + 1] = ".")

RECURSIVE SpecifiedScan(_, _, _)
\* the two-line grammar as the specification words it: the dotted forms of
\* the OIDs introduced, and whether the last introducer has no value line
SpecifiedScan(lines, pending, keys) ==
  IF Len(lines) = 0 THEN [keys |-> keys, pending |-> pending]
  ELSE IF pending THEN SpecifiedScan(Tail(lines), FALSE, keys)
  ELSE IF SpecifiedIntroducer(lines[1])
    THEN SpecifiedScan(Tail(lines), TRUE,
                       keys \cup {SubSeq(lines[1], 1, Len(lines[1]) - 1)})
  ELSE SpecifiedScan(Tail(lines), FALSE, keys)

\* both markers are there, line i of the scanned window is the only line
\* the parser takes as an introducer, it introduces oid, and the next line
\* is a two-space indent followed by content that neither starts nor ends
\* with whitespace
IndentedValueCase(t, oid, i) ==
  LET raw == RawLines(ExtWindow(t))
  IN  /\ Contains(t, EXTENSIONS) /\ Contains(t, SIGNATURE)
      /\ i \in 1..(Len(raw) - 1)
      /\ PyStrip(raw[i]) = Str(oid) \o <<":">>
      /\ PatternMatch(PyStrip(raw[i]))
      /\ \A j \in 1..Len(raw) : j # i => ~PatternMatch(PyStrip(raw[j]))
      /\ Len(raw[i + 1]) >= 3
      /\ raw[i + 1][1] = " " /\ raw[i + 1][2] = " "
      /\ raw[i + 1][3] \notin Whitespace
      /\ raw[i + 1][Len(raw[i + 1])] \notin Whitespace

\* the content after the indent of the line that follows line i
Content(t, i) ==
  LET raw == RawLines(ExtWindow(t))
  IN  SubSeq(raw[i + 1], 3, Len(raw[i + 1]))

----------------------------------------------------------------------------
(* The properties. *)

\* C1: self.match(pattern) is true exactly when the compared window of self
\* (its last len(q) components for a pattern with an empty first component,
\* its first len(q) for one with an empty last component, all of it
\* otherwise) has as many components as the stripped pattern q and agrees
\* with q position by position, '*' agreeing with anything; a self shorter
\* than the pattern never matches.
\* Stated for a self and a stripped pattern of at least one component each.
C1_MatchIsWindowEquality ==
  (last.op = "match" /\ Len(last.self) >= 1 /\ Len(StrippedPattern(last.oid)) >= 1)
    => (last.ok <=> SpecifiedMatch(last.self, last.oid))

\* C2: for a query q without '*' and without empty components, get(q) is the
\* value stored under exactly q, and None when q is not stored, in which case
\* find(q) is empty; whatever other keys are stored, prefixes of q included.
C2_ExactLookup ==
  /\ (last.op = "get" /\ FullySpecified(last.oid))
       => last.val = StoredValue(heap[last.target], last.oid)
  /\ (last.op = "find" /\ FullySpecified(last.oid)
        /\ Stored(heap[last.target], last.oid) = {})
       => last.found = <<>>

\* C3: for a pattern that matches a stored key, find(pattern, 1) returns one
\* entry, that of the matching key whose dotted form is lexicographically
\* smallest, whatever the identity of the key objects; and find(pattern, k)
\* is the first k entries of find(pattern, 0).
C3_FindLimitOneIsLexSmallest ==
  /\ (last.op = "find" /\ last.limit = 1 /\ Matching(heap[last.target], last.oid) # {})
       => /\ Len(last.found) = 1
          /\ \A j \in Matching(heap[last.target], last.oid) :
               ~StrLess(Str(heap[last.target].items[j].key), Str(last.found[1].key))
  /\ (last.op = "find" /\ last.limit > 0)
       => last.found = FirstN(ExtFind(heap[last.target], last.oid, 0), last.limit)

\* C4: for a fully specified root r, branch(r).get("1") is the value stored
\* under r + ".1", and None when there is none, also when r or a prefix of r
\* is a stored key.
C4_BranchThenGetOne ==
  (/\ last.op = "get"
   /\ last.oid = << <<"1">> >>
   /\ heap[last.target].origin.op = "branch"
   /\ FullySpecified(heap[last.target].origin.arg))
    => last.val = StoredValue(heap[heap[last.target].origin.src],
                              heap[last.target].origin.arg \o << <<"1">> >>)

\* C5: a dump without "extensions:" or without "Signature Algorithm:" parses
\* to an empty Extensions; with both, every key comes from a line between the
\* first "extensions:" and the last "Signature Algorithm:".
C5_MissingMarkerGivesEmpty ==
  last.op = "parse" =>
    IF Contains(text, EXTENSIONS) /\ Contains(text, SIGNATURE)
      THEN \A k \in KeyStrs(heap[1]) :
             \E i \in 1..Len(StrippedLines(BetweenMarkers(text))) :
               LET line == StrippedLines(BetweenMarkers(text))[i]
               IN  SubSeq(line, 1, Len(line) - 1) = k
      ELSE heap[1].items = <<>>

\* C6: an introducer line for o followed by a value line of a two-character
\* indent and content v gives get(o) = v: the offset drops only the indent.
C6_ValueIsContentAfterIndent ==
  last.op = "get" =>
    \A i \in 1..MaxLines :
      IndentedValueCase(text, last.oid, i) => last.val = Content(text, i)

\* C6 as amended: when the introducer line for o is the only line of the
\* window the parser takes as an introducer, get(o) is the content v of the
\* next line without its first two characters: the line is stripped first,
\* and the offset then drops two characters of the content.
C6_ValueIsContentFromOffsetTwo ==
  last.op = "get" =>
    \A i \in 1..MaxLines :
      IndentedValueCase(text, last.oid, i) =>
        last.val = SubSeq(Content(text, i), 3, Len(Content(text, i)))

\* a lookup of the one introduced OID returned the content after its two
\* leading characters
C6_Witness ==
  /\ last.op = "get"
  /\ \E i \in 1..MaxLines : IndentedValueCase(text, last.oid, i)
  /\ last.val = <<"a">>

\* C7: when the scanned window ends with an introducer line that has no
\* following line, parsing ends in a fatal error; it never completes
\* normally.
C7_DanglingIntroducerIsFatal ==
  (last.op = "parse" /\ SpecifiedScan(ExtLines(text), FALSE, {}).pending)
    => last.raised

\* C8: the keys parsed are the OIDs introduced between the markers, an
\* introducer being a line of digit groups, digits (one or more) and a colon
\* that is not the value line of the introducer before it; the key is the
\* line without its colon.
C8_KeysAreTheIntroducedOIDs ==
  (/\ last.op = "parse"
   /\ Contains(text, EXTENSIONS) /\ Contains(text, SIGNATURE)
   /\ ~SpecifiedScan(StrippedLines(BetweenMarkers(text)), FALSE, {}).pending)
    => KeyStrs(heap[1]) = SpecifiedScan(StrippedLines(BetweenMarkers(text)), FALSE, {}).keys

\* C9: no call of get, find, branch or ltrim changes an Extensions that
\* exists, its keys' components or its values; branch and ltrim return an
\* instance that did not exist before.
C9_CallsLeaveInstancesUnchanged ==
  [][/\ \A i \in DOMAIN heap : i \in DOMAIN heap' /\ heap'[i] = heap[i]
     /\ (last'.op \in {"branch", "ltrim"} /\ ~last'.raised)
          => /\ last'.ret \notin DOMAIN heap
             /\ last'.ret \in DOMAIN heap']_vars

\* a lookup on an instance ltrim returned, whose keys differ from its source's
C9_Witness ==
  /\ Len(heap) = 2
  /\ heap[2].origin.op = "ltrim"
  /\ last.op \in {"get", "find"} /\ last.target = 2
  /\ Len(heap[1].items) = 2
  /\ KeyStrs(heap[2]) # KeyStrs(heap[1])
  /\ last.val # None

\* C10: get, find and branch never raise, whatever the query (the empty str,
\* an OID without components, patterns with '*' or empty components), and a
\* query that matches nothing gives None, an empty list, an empty Extensions.
C10_QueriesNeverRaise ==
  /\ last.op \in {"get", "find", "branch"} => ~last.raised
  /\ (last.op = "get" /\ Matching(heap[last.target], last.oid) = {}) => last.val = None
  /\ (last.op = "find" /\ Matching(heap[last.target], last.oid) = {}) => last.found = <<>>
  /\ (last.op = "branch" /\ ~last.raised
        /\ Matching(heap[last.target], BranchRoot(last.oid)) = {})
       => heap[last.ret].items = <<>>

\* a key of the form REDHAT.3.i.1: three components after the base, the
\* first "3", the last "1"
EntitlementKey(k) ==
  LET n == Len(OIDofStr(REDHAT))
  IN  /\ Len(k) = n + 3
      /\ SubSeq(k, 1, n) = OIDofStr(REDHAT)
      /\ k[n + 1] = <<"3">>
      /\ k[n + 3] = <<"1">>

\* the positions of the entries of inst whose key is of that form
EntitlementKeys(inst) ==
  {j \in 1..Len(inst.items) : EntitlementKey(inst.items[j].key)}

\* the subtree 3.i of the key REDHAT.3.i.1
Subtree(k) == SubSeq(k, Len(k) - 2, Len(k) - 1)

\* C11: getEntitlements never raises and returns exactly one Entitlement
\* for each stored key of the form REDHAT.3.i.1 and nothing else: keys with
\* fewer or more than three components after the base, and keys that are
\* not under the base, produce none; the Entitlement for i is the branch of
\* the subtree 3.i, and its getName() is the value stored at 3.i.1.
C11_OneEntitlementPerEntitlementKey ==
  /\ last.op = "getEntitlements" =>
       /\ ~last.raised
       /\ Len(last.lst) = Cardinality(EntitlementKeys(heap[1]))
       /\ \A j \in EntitlementKeys(heap[1]) :
            \E k \in 1..Len(last.lst) :
              heap[last.lst[k]].origin.arg = Subtree(heap[1].items[j].key)
  /\ (/\ last.op = "get"
      /\ last.target > 2
      /\ \E j \in EntitlementKeys(heap[1]) :
           heap[last.target].origin.arg = Subtree(heap[1].items[j].key))
       => last.val = StoredValue(heap[1], OIDofStr(REDHAT)
                                            \o heap[last.target].origin.arg
                                            \o << <<"1">> >>)

====
